---- MODULE Spec2Model ----
(***************************************************************************)
(* A model of the ethdigest crate: the 32-byte Digest value type, its hex  *)
(* codec (hex.rs), its formatting buffer (buffer.rs), the Keccak wrapper   *)
(* (keccak.rs), the serde integration (serde.rs) and the digest!/keccak!   *)
(* procedural macros (macros/src/lib.rs).                                  *)
(*                                                                         *)
(* A Rust str is modelled as what it is: a sequence of bytes holding     *)
(* valid UTF-8.  Characters are code points; chars decodes them.         *)
(***************************************************************************)
EXTENDS Integers, Sequences, FiniteSets, TLC

VARIABLES
    op,      \* the public operation this run calls
    text,    \* its &str argument (UTF-8 bytes)
    data,    \* its byte argument: digest bytes, a slice, or a message
    opts,    \* its Formatter settings
    tokens,  \* its TokenStream argument
    hasher,  \* the bytes the Keccak instance has absorbed so far
    rest,    \* the part of the message not yet written to the hasher
    chunks,  \* the lengths of the chunks written so far, in order
    used,    \* the entry points the chunks were written through
    state,   \* the ParserState of a running Input::parse
    parse_result,  \* the Input (result) that Input::parse fills in
    stack,   \* the token streams ParserState::input is iterating, innermost first
    pc,      \* "ready" before the call, "hashing" or "parsing" during it, "done" after
    ret      \* the value the call returned

vars == <<op, text, data, opts, tokens, hasher, rest, chunks, used, state, parse_result, stack, pc, ret>>

----------------------------------------------------------------------------
(* Results *)

Ok(v) == [tag |-> "Ok", value |-> v]
Err(e) == [tag |-> "Err", error |-> e]
Panic == [tag |-> "Panic"]
NoRet == [tag |-> "None"]

Some(v) == [some |-> TRUE, v |-> v]
None == [some |-> FALSE]

\* The ? operator: the value of an Ok goes on to F, anything else is returned.
Try(r, F(_)) == IF r.tag = "Ok" THEN F(r.value) ELSE r

\* Result::map_err.
map_err(r, F(_)) == IF r.tag = "Err" THEN Err(F(r.error)) ELSE r

\* Result::unwrap.
unwrap(r) == IF r.tag = "Ok" THEN r ELSE Panic

\* Option::ok_or_else.
ok_or(o, e) == IF o.some THEN Ok(o.v) ELSE Err(e)

\* Option::and_then.
and_then(o, F(_)) == IF o.some THEN F(o.v) ELSE None

----------------------------------------------------------------------------
(* str: UTF-8 *)

\* The UTF-8 encoding of one code point.
Utf8(c) ==
    IF c < 128 THEN <<c>>
    ELSE IF c < 2048 THEN <<192 + (c \div 64), 128 + (c % 64)>>
    ELSE IF c < 65536
        THEN <<224 + (c \div 4096), 128 + ((c \div 64) % 64), 128 + (c % 64)>>
    ELSE <<240 + (c \div 262144), 128 + ((c \div 4096) % 64),
           128 + ((c \div 64) % 64), 128 + (c % 64)>>

\* The str holding the characters cs.
RECURSIVE Str(_)
Str(cs) == IF cs = <<>> THEN <<>> ELSE Utf8(Head(cs)) \o Str(Tail(cs))

\* The number of bytes of the character whose first byte is b.
Utf8Width(b) == IF b < 128 THEN 1 ELSE IF b < 224 THEN 2 ELSE IF b < 240 THEN 3 ELSE 4

\* str::is_char_boundary, i counted from 0.
is_char_boundary(s, i) ==
    \/ i = 0
    \/ i = Len(s)
    \/ i < Len(s) /\ s[i + 1] \notin 128..191

\* The character that starts at byte i (counted from 0) of s.
CharAt(s, i) ==
    LET b0 == s[i + 1]
        w == Utf8Width(b0)
        cont(k) == s[i + 1 + k] - 128
    IN  IF w = 1 THEN b0
        ELSE IF w = 2 THEN (b0 - 192) * 64 + cont(1)
        ELSE IF w = 3 THEN (b0 - 224) * 4096 + cont(1) * 64 + cont(2)
        ELSE (b0 - 240) * 262144 + cont(1) * 4096 + cont(2) * 64 + cont(3)

\* str::chars, collected.
RECURSIVE CharsFrom(_, _)
CharsFrom(s, i) ==
    IF i >= Len(s) THEN <<>>
    ELSE <<CharAt(s, i)>> \o CharsFrom(s, i + Utf8Width(s[i + 1]))

chars(s) == CharsFrom(s, 0)

\* str::strip_prefix.
strip_prefix(s, p) ==
    IF Len(s) >= Len(p) /\ SubSeq(s, 1, Len(p)) = p
        THEN Some(SubSeq(s, Len(p) + 1, Len(s)))
        ELSE None

\* str::strip_suffix.
strip_suffix(s, p) ==
    IF Len(s) >= Len(p) /\ SubSeq(s, Len(s) - Len(p) + 1, Len(s)) = p
        THEN Some(SubSeq(s, 1, Len(s) - Len(p)))
        ELSE None

----------------------------------------------------------------------------
(* hex.rs *)

InvalidLength == [kind |-> "InvalidLength"]
InvalidHexCharacter(c, index) == [kind |-> "InvalidHexCharacter", c |-> c, index |-> index]

\* nibble with the offset 0xa of the upper-case arm forgotten.
nibble_upper_without_offset(c) ==
    IF c \in 48..57 THEN Some(c - 48)
    ELSE IF c \in 65..70 THEN Some(c - 65)
    ELSE IF c \in 97..102 THEN Some(c - 97 + 10)
    ELSE None

\* The closure nibble of decode.
nibble(c) ==
    IF c \in 48..57 THEN Some(c - 48)
    ELSE IF c \in 65..70 THEN Some(c - 65 + 10)
    ELSE IF c \in 97..102 THEN Some(c - 97 + 10)
    ELSE None

\* The closure invalid_char of decode: s[i..] panics off a char boundary.
invalid_char(s, ch_offset, i) ==
    IF ~is_char_boundary(s, i) THEN Panic
    ELSE Err(InvalidHexCharacter(CharAt(s, i), i + ch_offset))

\* The loop of decode over s.as_bytes().chunks(2).enumerate(), from chunk i on.
RECURSIVE decode_chunks(_, _, _, _)
decode_chunks(s, ch_offset, i, bytes) ==
    IF i * 2 >= Len(s) THEN Ok(bytes)
    ELSE LET hi == nibble(s[i * 2 + 1])
         IN  IF ~hi.some THEN invalid_char(s, ch_offset, i * 2)
             ELSE IF i * 2 + 1 >= Len(s) THEN Panic
             ELSE LET lo == nibble(s[i * 2 + 2])
                  IN  IF ~lo.some THEN invalid_char(s, ch_offset, i * 2 + 1)
                      ELSE IF i >= 32 THEN Panic
                      ELSE decode_chunks(s, ch_offset, i + 1,
                                         Append(bytes, (hi.v * 16 + lo.v) % 256))

\* hex::decode.
decode(s0) ==
    LET stripped == strip_prefix(s0, <<48, 120>>)
        s == IF stripped.some THEN stripped.v ELSE s0
        ch_offset == IF stripped.some THEN 2 ELSE 0
    IN  IF Len(s) # 64 THEN Err(InvalidLength)
        ELSE decode_chunks(s, ch_offset, 0, <<>>)

\* Display for ParseDigestError: the format string (its backquotes written as
\* apostrophes) and its arguments.
ParseDigestError_fmt(e) ==
    IF e.kind = "InvalidLength"
        THEN [fmt |-> "invalid hex string length"]
        ELSE [fmt |-> "invalid character '{c}' at position {index}",
              c |-> e.c, index |-> e.index]

\* FromStr for Digest.
from_str(s) == decode(s)

----------------------------------------------------------------------------
(* buffer.rs *)

\* Alphabet::lut.
lut(alphabet) ==
    IF alphabet = "Lower"
        THEN <<48, 49, 50, 51, 52, 53, 54, 55, 56, 57, 97, 98, 99, 100, 101, 102>>
        ELSE <<48, 49, 50, 51, 52, 53, 54, 55, 56, 57, 65, 66, 67, 68, 69, 70>>

\* buffer::fmt writing the low nibble before the high one.
fmt_low_nibble_first(bytes, alphabet) ==
    [j \in 1..(2 + 2 * Len(bytes)) |->
        IF j = 1 THEN 48
        ELSE IF j = 2 THEN 120
        ELSE LET byte == bytes[(j - 3) \div 2 + 1]
             IN  IF (j - 3) % 2 = 0
                     THEN lut(alphabet)[(byte % 16) + 1]
                     ELSE lut(alphabet)[(byte \div 16) + 1]]

\* buffer::fmt: the 66 bytes of the FormattingBuffer.
fmt(bytes, alphabet) ==
    [j \in 1..(2 + 2 * Len(bytes)) |->
        IF j = 1 THEN 48
        ELSE IF j = 2 THEN 120
        ELSE LET byte == bytes[(j - 3) \div 2 + 1]
             IN  IF (j - 3) % 2 = 0
                     THEN lut(alphabet)[(byte \div 16) + 1]
                     ELSE lut(alphabet)[(byte % 16) + 1]]

\* FormattingBuffer::as_str.
as_str(buffer) == buffer

\* FormattingBuffer::as_bytes_str.
as_bytes_str(buffer) == SubSeq(as_str(buffer), 3, Len(buffer))

----------------------------------------------------------------------------
(* core::fmt::Formatter, as the Digest formatting impls use it *)

\* The first n characters of s (all of s when it has fewer).
RECURSIVE TruncateChars(_, _, _)
TruncateChars(s, i, n) ==
    IF n = 0 \/ i >= Len(s) THEN SubSeq(s, 1, i)
    ELSE TruncateChars(s, i + Utf8Width(s[i + 1]), n - 1)

\* n copies of the fill character.
RECURSIVE Fill(_, _)
Fill(c, n) == IF n <= 0 THEN <<>> ELSE Utf8(c) \o Fill(c, n - 1)

\* Formatter::pad: truncate to the precision, then pad to the width; a str
\* aligns left unless the format spec says otherwise.
pad(f, s) ==
    IF ~f.width.some /\ ~f.precision.some THEN s
    ELSE LET s1 == IF f.precision.some THEN TruncateChars(s, 0, f.precision.v) ELSE s
             n == Len(chars(s1))
         IN  IF ~f.width.some \/ n >= f.width.v THEN s1
             ELSE LET padding == f.width.v - n
                      pre == IF f.align = "Right" THEN padding
                             ELSE IF f.align = "Center" THEN padding \div 2
                             ELSE 0
                  IN  Fill(f.fill, pre) \o s1 \o Fill(f.fill, padding - pre)

\* The Formatter a bare {} placeholder formats with.
DefaultFormatter ==
    [alternate |-> FALSE, width |-> None, precision |-> None, fill |-> 32, align |-> "Unknown"]

----------------------------------------------------------------------------
(* lib.rs *)

\* Display for Digest.
Display_fmt(self, f) == pad(f, as_str(fmt(self, "Lower")))

\* LowerHex for Digest with the test of the alternate flag inverted.
LowerHex_fmt_alternate_inverted(self, f) ==
    LET buffer == fmt(self, "Lower")
    IN  pad(f, IF ~f.alternate THEN as_str(buffer) ELSE as_bytes_str(buffer))

\* LowerHex for Digest.
LowerHex_fmt(self, f) ==
    LET buffer == fmt(self, "Lower")
    IN  pad(f, IF f.alternate THEN as_str(buffer) ELSE as_bytes_str(buffer))

\* UpperHex for Digest.
UpperHex_fmt(self, f) ==
    LET buffer == fmt(self, "Upper")
    IN  pad(f, IF f.alternate THEN as_str(buffer) ELSE as_bytes_str(buffer))

\* Debug for Digest: a debug_tuple named Digest with one field, format_args!("{self}"),
\* which formats self through Display with the settings of a bare placeholder;
\* the alternate flag makes the tuple pretty-printed.
Debug_fmt(self, f) ==
    LET field == Display_fmt(self, DefaultFormatter)
        name == <<68, 105, 103, 101, 115, 116>>
    IN  IF f.alternate
            THEN name \o <<40, 10, 32, 32, 32, 32>> \o field \o <<44, 10, 41>>
            ELSE name \o <<40>> \o field \o <<41>>

\* The conversion taking the first 32 bytes of a longer slice.
try_into_array_truncating(value) ==
    IF Len(value) >= 32 THEN Ok(SubSeq(value, 1, 32)) ELSE Err([kind |-> "TryFromSliceError"])

\* <[u8; 32]>::try_from(&[u8]), which the TryFrom impls for Digest call.
try_into_array(value) ==
    IF Len(value) = 32 THEN Ok(value) ELSE Err([kind |-> "TryFromSliceError"])

\* TryFrom<&[u8]> for Digest unwrapping the conversion instead of returning its error.
try_from_slice_unwrapping(value) == unwrap(try_into_array(value))

\* TryFrom<&[u8]> for Digest.
try_from_slice(value) == try_into_array(value)

\* TryFrom<&mut [u8]> for Digest.
try_from_mut_slice(value) == try_into_array(value)

\* TryFrom<&[u8]> for &Digest: Digest::from_ref of the converted reference.
try_from_slice_ref(value) == Try(try_into_array(value), LAMBDA array : Ok(array))

\* TryFrom<&mut [u8]> for &mut Digest: Digest::from_mut of the converted reference.
try_from_mut_slice_ref(value) == Try(try_into_array(value), LAMBDA array : Ok(array))

\* TryFrom<Vec<u8>> for Digest: the error is the vector itself.
try_from_vec(value) ==
    IF try_into_array(value).tag = "Ok" THEN Ok(value) ELSE Err([kind |-> "Vec", vec |-> value])

\* Digest::from_slice: slice.try_into().unwrap().
from_slice(slice) == unwrap(try_from_slice(slice))

----------------------------------------------------------------------------
(* keccak.rs *)

\* sha3::Keccak256 is an external collaborator: its state is represented by the
\* bytes absorbed so far and its output by an injective 32-byte encoding of
\* them (the length, then the bytes), so two digests are equal exactly when the
\* absorbed messages are.
Keccak256_new == <<>>

Keccak256_update(absorbed, bytes) == absorbed \o bytes

Keccak256_finalize(absorbed) ==
    [i \in 1..32 |->
        IF i = 1 THEN Len(absorbed)
        ELSE IF i - 1 <= Len(absorbed) THEN absorbed[i - 1]
        ELSE 0]

\* Keccak::new.
Keccak_new == Keccak256_new

\* Keccak::update starting a fresh hash at every call.
Keccak_update_restarting(self, bytes) == Keccak256_update(Keccak256_new, bytes)

\* Keccak::update.
Keccak_update(self, bytes) == Keccak256_update(self, bytes)

\* Keccak::finalize.
Keccak_finalize(self) == Keccak256_finalize(self)

\* The value of a string literal with the source text s from byte i on, as the
\* compiler evaluates it for a runtime use such as Digest::of("..."): the
\* escapes \n \r \t \0 \\ \" and \' stand for one byte each.  (The escapes
\* \x, \u and the line continuation do not occur in the literals used here.)
RECURSIVE literal_value_from(_, _)
literal_value_from(s, i) ==
    IF i > Len(s) THEN <<>>
    ELSE IF s[i] = 92 /\ i < Len(s)
        THEN <<(IF s[i + 1] = 110 THEN 10
                ELSE IF s[i + 1] = 114 THEN 13
                ELSE IF s[i + 1] = 116 THEN 9
                ELSE IF s[i + 1] = 48 THEN 0
                ELSE s[i + 1])>> \o literal_value_from(s, i + 2)
    ELSE <<s[i]>> \o literal_value_from(s, i + 1)

literal_value(s) == literal_value_from(s, 1)

\* Digest::of.
Digest_of(bytes) == Keccak_finalize(Keccak_update(Keccak_new, bytes))

\* fmt::Write for Keccak: the hasher after write_str.
Keccak_write_str(self, s) == Keccak_update(self, s)

\* io::Write for Keccak: the hasher after write.
Keccak_write(self, buf) == Keccak_update(self, buf)

----------------------------------------------------------------------------
(* serde.rs *)

\* de::Error::custom of a message.
custom(msg) == [kind |-> "custom", msg |-> msg]

\* DigestVisitor::visit_str parsing the text whether or not it has the prefix.
visit_str_prefix_optional(s) ==
    map_err(from_str(s), LAMBDA e : custom(ParseDigestError_fmt(e)))

\* DigestVisitor::visit_str.
visit_str(s) ==
    Try(ok_or(strip_prefix(s, <<48, 120>>), custom([fmt |-> "missing '0x'-prefix"])),
        LAMBDA stripped :
            map_err(from_str(stripped), LAMBDA e : custom(ParseDigestError_fmt(e))))

\* Deserialize for Digest, from a string deserializer.
deserialize(s) == visit_str(s)

\* Serialize for Digest: the str handed to serialize_str.
serialize(self) == as_str(fmt(self, "Lower"))

----------------------------------------------------------------------------
(* macros/src/lib.rs *)

\* proc_macro::TokenTree.  A literal carries its lexical kind, its symbol (the
\* source text between the quotes, escapes unprocessed), its suffix and its
\* span; an identifier or punctuation its source text; a group its delimiter,
\* its stream and the span of its opening delimiter.
Literal(lit, symbol, suffix, span) ==
    [kind |-> "Literal", lit |-> lit, symbol |-> symbol, suffix |-> suffix, span |-> span]
Ident(repr, span) == [kind |-> "Ident", repr |-> repr, span |-> span]
Punct(repr, span) == [kind |-> "Punct", repr |-> repr, span |-> span]
Group(delimiter, stream, span) ==
    [kind |-> "Group", delimiter |-> delimiter, stream |-> stream, span |-> span]

\* Span::call_site(): the span 0; the tokens of the input have the spans 1, 2, ...
call_site == 0

\* Literal::to_string, TokenTree::to_string of a token that is no group.
to_string(token) ==
    IF token.kind # "Literal" THEN token.repr
    ELSE IF token.lit = "Str" THEN <<34>> \o token.symbol \o <<34>> \o token.suffix
    ELSE IF token.lit = "StrRaw" THEN <<114, 34>> \o token.symbol \o <<34>> \o token.suffix
    ELSE IF token.lit = "ByteStr" THEN <<98, 34>> \o token.symbol \o <<34>> \o token.suffix
    ELSE IF token.lit = "Char" THEN <<39>> \o token.symbol \o <<39>> \o token.suffix
    ELSE token.symbol \o token.suffix

\* parse_string leaving the closing quote in the value.
parse_string_keeping_end_quote(literal) == strip_prefix(to_string(literal), <<34>>)

\* parse_string.
parse_string(literal) ==
    and_then(strip_prefix(to_string(literal), <<34>>), LAMBDA a : strip_suffix(a, <<34>>))

\* What ParserState::unexpected found: its text and its span.
found(token) ==
    IF ~token.some THEN [value |-> <<60, 101, 111, 102, 62>>, span |-> None]
    ELSE IF token.v.kind # "Group"
        THEN [value |-> to_string(token.v), span |-> Some(token.v.span)]
    ELSE [value |-> IF token.v.delimiter = "Parenthesis" THEN <<40>>
                    ELSE IF token.v.delimiter = "Brace" THEN <<123>>
                    ELSE IF token.v.delimiter = "Bracket" THEN <<91>>
                    ELSE Utf8(216),
          span |-> Some(token.v.span)]

\* ParserState::unexpected: the CompileError.
unexpected(self, token) ==
    [message |-> [fmt |-> "expected {expected} but found '{value}'",
                  expected |-> IF self = "String" THEN "string literal" ELSE "<eof>",
                  value |-> found(token).value],
     span |-> found(token).span]

\* ParserState::input: try_fold of ParserState::next over the stream; the
\* accumulator is the state together with the result written so far.
RECURSIVE ParserState_input(_, _, _)

\* The arm of ParserState::next for a literal in state String.
next_literal(self, token, value) ==
    IF value.some
        THEN Ok([state |-> "Eof", result |-> [value |-> value.v, span |-> token.span]])
        ELSE Err(unexpected(self, Some(token)))

\* ParserState::next.
ParserState_next(self, token, result) ==
    IF token.kind = "Group" /\ token.delimiter = "None"
        THEN ParserState_input(self, token.stream, result)
    ELSE IF self = "String" /\ token.kind = "Literal"
        THEN next_literal(self, token, parse_string(token))
    ELSE Err(unexpected(self, Some(token)))

ParserState_input(self, input, result) ==
    IF input = <<>> THEN Ok([state |-> self, result |-> result])
    ELSE Try(ParserState_next(self, Head(input), result),
             LAMBDA acc : ParserState_input(acc.state, Tail(input), acc.result))

\* ParserState::end accepting the end of input in either state.
ParserState_end_in_any_state(self) == Ok(<<>>)

\* ParserState::end.
ParserState_end(self) == IF self = "Eof" THEN Ok(<<>>) ELSE Err(unexpected(self, None))

\* Input::parse.
Input_parse(input) ==
    Try(ParserState_input("String", input, [value |-> <<>>, span |-> call_site]),
        LAMBDA acc : Try(ParserState_end(acc.state), LAMBDA unit : Ok(acc.result)))

\* hex::decode of the macros crate (mod hex, macros/src/hex.rs): the same
\* HexCodec as the library's.
macros_hex_decode(s) == decode(s)

\* Display for the ParseDigestError of the macros crate's mod hex.
macros_hex_ParseDigestError_fmt(e) == ParseDigestError_fmt(e)

\* DigestLiteral::generate_digest.
generate_digest(input_stream) ==
    Try(Input_parse(input_stream),
        LAMBDA input :
            map_err(macros_hex_decode(input.value),
                    LAMBDA err : [message |-> [fmt |-> "invalid digest literal: {err}",
                                               err |-> macros_hex_ParseDigestError_fmt(err)],
                                  span |-> Some(input.span)]))

\* DigestLiteral::generate_keccak.
generate_keccak(input_stream) ==
    Try(Input_parse(input_stream),
        LAMBDA input :
            Ok(Keccak256_finalize(Keccak256_update(Keccak256_new, input.value))))

\* The text DigestLiteral::into_tokens writes for bytes from i on: \x and two
\* lowercase hex digits for each.
RECURSIVE ByteEscapes(_, _)
ByteEscapes(bytes, i) ==
    IF i > Len(bytes) THEN <<>>
    ELSE <<92, 120, lut("Lower")[(bytes[i] \div 16) + 1], lut("Lower")[(bytes[i] % 16) + 1]>>
         \o ByteEscapes(bytes, i + 1)

\* DigestLiteral::into_tokens: the source text ::ethdigest::Digest(*b"...")
\* that is parsed into the output TokenStream.
DigestLiteral_into_tokens(self) ==
    [kind |-> "expression",
     source |-> <<58, 58, 101, 116, 104, 100, 105, 103, 101, 115, 116, 58, 58,
                  68, 105, 103, 101, 115, 116, 40, 42, 98, 34>>
                \o ByteEscapes(self, 1) \o <<34, 41>>]

\* CompileError::into_tokens: compile_error!(message), every token of it
\* carrying the error's span when there is one.
CompileError_into_tokens(self) ==
    [kind |-> "compile_error", message |-> self.message, span |-> self.span]

\* The match of both macros: the tokens of the digest or of the error.
into_tokens(r) ==
    IF r.tag = "Ok" THEN Ok(DigestLiteral_into_tokens(r.value))
    ELSE IF r.tag = "Err" THEN Ok(CompileError_into_tokens(r.error))
    ELSE r

\* The digest! procedural macro.
digest(input) == into_tokens(generate_digest(input))

\* The keccak! procedural macro.
keccak(input) == into_tokens(generate_keccak(input))

----------------------------------------------------------------------------
(* The inputs the operations are called with *)

\* How far a text's character count strays from 64.
LenSlack == 2
\* How far a slice's length strays from 32.
SliceSlack == 2
\* How far a width or precision strays from the rendered lengths 64 and 66.
FmtSlack == 1
\* The longest message hashed.
MaxMsgLen == 3
\* The most empty chunks written to one hasher.
MaxEmptyChunks == 1

\* '0', 'E'
FillChars == {48, 69}

\* '9' 'a' 'f' 'A' 'F', the neighbours of the digit ranges '/' ':' '@' 'G'
\* (backquote) 'g', then 'x', e-acute (2 bytes) and the euro sign (3 bytes).
SpecialChars == {57, 97, 102, 65, 70, 47, 58, 64, 71, 96, 103, 120, 233, 8364}

\* The last character of a text: the fill character (0), or 'g', or e-acute.
TailChars == {0, 103, 233}

\* Nothing and 0x; 0X and 0x0x.
Prefixes == {<<>>, <<48, 120>>}
OddPrefixes == {<<48, 88>>, <<48, 120, 48, 120>>}

\* The characters of a text: n times fill, with c at position k and, when
\* tail is not 0 and k is not n, tail at position n.
TextChars(n, fill, k, c, tail) ==
    [i \in 1..n |-> IF i = k THEN c ELSE IF i = n /\ tail # 0 THEN tail ELSE fill]

\* The texts with a prefix of P whose special character sits at a position of
\* K when the text has 64 characters, and at its first, second or last
\* position otherwise.
Texts(P, K) ==
    { p \o Str(TextChars(n, fill, k, c, tail)) :
        p \in P, fill \in FillChars, c \in SpecialChars, tail \in TailChars,
        <<n, k>> \in { <<64, k>> : k \in K }
            \cup { <<n, k>> \in ((64 - LenSlack)..(64 + LenSlack)) \X {1, 2, 64 - LenSlack} :
                       n # 64 } }

\* Digests: v at every byte but w at byte k.
Digests(K) ==
    { [i \in 1..32 |-> IF i = k THEN w ELSE v] :
        v \in {0, 238}, k \in K, w \in { 16 * h + l : h \in {0, 9, 10, 15}, l \in {0, 9, 10, 15} } }

\* The digests the formatting impls are called on.
FormatDigests ==
    { [i \in 1..32 |-> IF i = k THEN w ELSE 238] : k \in {1, 32}, w \in {10, 159} }

\* Slices of every length near 32, and the empty one.
Slices ==
    { [i \in 1..n |-> (base + i * step) % 256] :
        n \in {0} \cup ((32 - SliceSlack)..(32 + SliceSlack)), base \in {0, 200}, step \in {1, 7} }

\* Widths and precisions: unset, 0, or near the rendered lengths.
Sizes == {None} \cup { Some(n) : n \in {0} \cup ((64 - FmtSlack)..(66 + FmtSlack)) }

Formatters ==
    { [alternate |-> a, width |-> w, precision |-> pr, fill |-> fa[1], align |-> fa[2]] :
        a \in BOOLEAN, w \in Sizes, pr \in Sizes,
        fa \in {<<32, "Unknown">>, <<32, "Left">>, <<48, "Right">>, <<233, "Center">>} }

\* Messages of at most MaxMsgLen bytes.
RECURSIVE MessagesOfLen(_)
MessagesOfLen(n) ==
    IF n = 0 THEN {<<>>}
    ELSE { Append(m, b) : m \in MessagesOfLen(n - 1), b \in {104, 255} }

Messages == UNION { MessagesOfLen(n) : n \in 0..MaxMsgLen }

NoOpts == [alphabet |-> "Lower"]

\* A string literal with the source text s between its quotes.
StrLit(s, span) == Literal("Str", s, <<>>, span)

\* Token streams that are one string literal, bare or inside None-delimited
\* groups (as a macro_rules! expansion passes it).
LiteralStreams(s) ==
    << <<StrLit(s, 1)>>,
       <<Group("None", <<StrLit(s, 2)>>, 1)>>,
       <<Group("None", <<>>, 1), Group("None", <<Group("None", <<StrLit(s, 4)>>, 3)>>, 2)>>,
       <<StrLit(s, 1), Group("None", <<>>, 2)>> >>

\* Token streams of any other shape.
OtherStreams(s) ==
    << <<>>,
       <<Group("None", <<>>, 1)>>,
       <<StrLit(s, 1), StrLit(s, 2)>>,
       <<StrLit(s, 1), Punct(<<44>>, 2)>>,
       <<StrLit(s, 1), Group("Parenthesis", <<>>, 2)>>,
       <<Group("None", <<StrLit(s, 2)>>, 1), Group("None", <<Ident(<<120>>, 4)>>, 3)>>,
       <<Group("Parenthesis", <<StrLit(s, 2)>>, 1)>>,
       <<Group("Brace", <<StrLit(s, 2)>>, 1)>>,
       <<Group("Bracket", <<StrLit(s, 2)>>, 1)>>,
       <<Ident(<<120>>, 1)>>,
       <<Literal("Integer", <<52, 50>>, <<>>, 1)>>,
       <<Literal("Char", <<48>>, <<>>, 1)>>,
       <<Literal("StrRaw", s, <<>>, 1)>>,
       <<Literal("ByteStr", s, <<>>, 1)>>,
       <<Literal("Str", s, <<117, 56>>, 1)>>,
       <<Group("None", <<Group("None", <<Punct(<<44>>, 3), StrLit(s, 4)>>, 2)>>, 1)>>,
       <<StrLit(s, 1), Group("None", <<Group("None", <<StrLit(s, 4), Ident(<<120>>, 5)>>, 3)>>, 2)>> >>

\* The literal texts the macros are given beside the hex texts: short ones,
\* among them h\ni and \" as they are written in the source, escapes and all.
ShortTexts ==
    { Str(cs) : cs \in {<<>>, <<104, 105>>, <<48, 120>>, <<233>>, <<104, 8364, 33>>,
                        <<104, 92, 110, 105>>, <<92, 34>>} }

\* The literal texts given in every shape of token stream.
ShapeTexts ==
    ShortTexts
    \cup { p \o Str(TextChars(64, 69, k, c, 0)) :
             p \in Prefixes, k \in {1, 64}, c \in {97, 103, 233} }

----------------------------------------------------------------------------
(* The state machine: a run calls one public operation on one input *)

Call(o, s, d, f, ts) ==
    /\ op = o
    /\ text = s
    /\ data = d
    /\ opts = f
    /\ tokens = ts
    /\ hasher = <<>>
    /\ rest = d
    /\ chunks = <<>>
    /\ used = {}
    /\ state = "String"
    /\ parse_result = [value |-> <<>>, span |-> call_site]
    /\ stack = <<>>
    /\ pc = "ready"
    /\ ret = NoRet

Init ==
    \/ \E s \in Texts(Prefixes, 1..64) \cup Texts(OddPrefixes, {1, 64}) :
            Call("from_str", s, <<>>, NoOpts, <<>>)
    \/ \E s \in Texts(Prefixes \cup OddPrefixes, {1, 2, 64}) :
            Call("deserialize", s, <<>>, NoOpts, <<>>)
    \/ \E d \in Digests(1..32), a \in {"Lower", "Upper"} :
            Call("buffer::fmt", <<>>, d, [alphabet |-> a], <<>>)
    \/ \E d \in Digests(1..32) : Call("serialize", <<>>, d, NoOpts, <<>>)
    \/ \E o \in {"Display", "Debug", "LowerHex", "UpperHex"}, d \in FormatDigests,
          f \in Formatters :
            Call(o, <<>>, d, f, <<>>)
    \/ \E o \in {"try_from_slice", "try_from_mut_slice", "try_from_slice_ref",
                 "try_from_mut_slice_ref", "try_from_vec", "from_slice"},
          d \in Slices :
            Call(o, <<>>, d, NoOpts, <<>>)
    \/ \E o \in {"Digest::of", "Keccak"}, d \in Messages : Call(o, <<>>, d, NoOpts, <<>>)
    \/ \E s \in Texts(Prefixes, {1, 64}) :
            Call("digest!", <<>>, <<>>, NoOpts, LiteralStreams(s)[1])
    \/ \E o \in {"digest!", "keccak!"}, s \in ShapeTexts, i \in 1..4 :
            Call(o, <<>>, <<>>, NoOpts, LiteralStreams(s)[i])
    \/ \E o \in {"digest!", "keccak!"}, s \in ShapeTexts, i \in 1..17 :
            Call(o, <<>>, <<>>, NoOpts, OtherStreams(s)[i])
    \/ \E s \in ShapeTexts, i \in 1..4 :
            Call("Input::parse", <<>>, <<>>, NoOpts, LiteralStreams(s)[i])
    \/ \E s \in ShapeTexts, i \in 1..17 :
            Call("Input::parse", <<>>, <<>>, NoOpts, OtherStreams(s)[i])

\* The call of op returns v.
Return(o, v) ==
    /\ pc = "ready"
    /\ op = o
    /\ ret' = v
    /\ pc' = "done"
    /\ UNCHANGED <<op, text, data, opts, tokens, hasher, rest, chunks, used, state, parse_result, stack>>

FromStr == Return("from_str", from_str(text))

Deserialize == Return("deserialize", deserialize(text))

Serialize == Return("serialize", Ok(serialize(data)))

BufferFmt == Return("buffer::fmt", Ok(fmt(data, opts.alphabet)))

DisplayFmt == Return("Display", Ok(Display_fmt(data, opts)))

DebugFmt == Return("Debug", Ok(Debug_fmt(data, opts)))

LowerHexFmt == Return("LowerHex", Ok(LowerHex_fmt(data, opts)))

UpperHexFmt == Return("UpperHex", Ok(UpperHex_fmt(data, opts)))

TryFromSlice == Return("try_from_slice", try_from_slice(data))

TryFromMutSlice == Return("try_from_mut_slice", try_from_mut_slice(data))

TryFromSliceRef == Return("try_from_slice_ref", try_from_slice_ref(data))

TryFromMutSliceRef == Return("try_from_mut_slice_ref", try_from_mut_slice_ref(data))

TryFromVec == Return("try_from_vec", try_from_vec(data))

FromSlice == Return("from_slice", from_slice(data))

DigestOf == Return("Digest::of", Ok(Digest_of(data)))

DigestMacro == Return("digest!", digest(tokens))

KeccakMacro == Return("keccak!", keccak(tokens))

\* Keccak::new(): the streaming run starts.
KeccakNew ==
    /\ pc = "ready"
    /\ op = "Keccak"
    /\ hasher' = Keccak_new
    /\ pc' = "hashing"
    /\ UNCHANGED <<op, text, data, opts, tokens, rest, chunks, used, state, parse_result, stack, ret>>

\* The number of empty chunks among lens.
Empties(lens) == Cardinality({ i \in 1..Len(lens) : lens[i] = 0 })

\* The next n bytes of the message go to the hasher through the entry point
\* via, which leaves the hasher as h.
Feed(via, n, h) ==
    /\ pc = "hashing"
    /\ n = 0 => Empties(chunks) < MaxEmptyChunks
    /\ hasher' = h
    /\ rest' = SubSeq(rest, n + 1, Len(rest))
    /\ chunks' = Append(chunks, n)
    /\ used' = used \cup {via}
    /\ UNCHANGED <<op, text, data, opts, tokens, state, parse_result, stack, pc, ret>>

\* hasher.update(chunk).
KeccakUpdate ==
    \E n \in 0..Len(rest) : Feed("update", n, Keccak_update(hasher, SubSeq(rest, 1, n)))

\* hasher.write_str(chunk) of fmt::Write: the chunk is a str.
KeccakWriteStr ==
    \E n \in 0..Len(rest) :
        /\ \A i \in 1..n : rest[i] < 128
        /\ Feed("write_str", n, Keccak_write_str(hasher, SubSeq(rest, 1, n)))

\* hasher.write(chunk) of io::Write.
KeccakWrite ==
    \E n \in 0..Len(rest) : Feed("write", n, Keccak_write(hasher, SubSeq(rest, 1, n)))

\* hasher.finalize(), once the whole message is written.
KeccakFinalize ==
    /\ pc = "hashing"
    /\ rest = <<>>
    /\ ret' = Ok(Keccak_finalize(hasher))
    /\ pc' = "done"
    /\ UNCHANGED <<op, text, data, opts, tokens, hasher, rest, chunks, used, state, parse_result, stack>>

\* Input::parse, token by token.  It starts the parser on its input.
ParseStart ==
    /\ pc = "ready"
    /\ op = "Input::parse"
    /\ state' = "String"
    /\ parse_result' = [value |-> <<>>, span |-> call_site]
    /\ stack' = <<tokens>>
    /\ pc' = "parsing"
    /\ UNCHANGED <<op, text, data, opts, tokens, hasher, rest, chunks, used, ret>>

\* The parse stops with the error e.
ParseFail(e) ==
    /\ ret' = Err(e)
    /\ pc' = "done"
    /\ UNCHANGED <<state, parse_result, stack>>

\* ParserState::next on the next token of the innermost stream.
ParseNext ==
    /\ pc = "parsing"
    /\ stack # <<>>
    /\ Head(stack) # <<>>
    /\ LET token == Head(Head(stack))
           after == <<Tail(Head(stack))>> \o Tail(stack)
       IN  IF token.kind = "Group" /\ token.delimiter = "None"
               THEN /\ stack' = <<token.stream>> \o after
                    /\ UNCHANGED <<state, parse_result, pc, ret>>
           ELSE IF state = "String" /\ token.kind = "Literal" /\ parse_string(token).some
               THEN /\ parse_result' = [value |-> parse_string(token).v, span |-> token.span]
                    /\ state' = "Eof"
                    /\ stack' = after
                    /\ UNCHANGED <<pc, ret>>
           ELSE ParseFail(unexpected(state, Some(token)))
    /\ UNCHANGED <<op, text, data, opts, tokens, hasher, rest, chunks, used>>

\* ParserState::input of a group's stream returns the state it reached.
ParseGroupEnd ==
    /\ pc = "parsing"
    /\ Len(stack) > 1
    /\ Head(stack) = <<>>
    /\ stack' = Tail(stack)
    /\ UNCHANGED <<op, text, data, opts, tokens, hasher, rest, chunks, used, state, parse_result, pc, ret>>

\* The input is used up: ParserState::end, and Input::parse returns.
ParseEnd ==
    /\ pc = "parsing"
    /\ stack = <<<<>>>>
    /\ ret' = Try(ParserState_end(state), LAMBDA unit : Ok(parse_result))
    /\ pc' = "done"
    /\ UNCHANGED <<op, text, data, opts, tokens, hasher, rest, chunks, used, state, parse_result, stack>>

Next ==
    \/ FromStr
    \/ Deserialize
    \/ Serialize
    \/ BufferFmt
    \/ DisplayFmt
    \/ DebugFmt
    \/ LowerHexFmt
    \/ UpperHexFmt
    \/ TryFromSlice
    \/ TryFromMutSlice
    \/ TryFromSliceRef
    \/ TryFromMutSliceRef
    \/ TryFromVec
    \/ FromSlice
    \/ DigestOf
    \/ DigestMacro
    \/ KeccakMacro
    \/ KeccakNew
    \/ KeccakUpdate
    \/ KeccakWriteStr
    \/ KeccakWrite
    \/ KeccakFinalize
    \/ ParseStart
    \/ ParseNext
    \/ ParseGroupEnd
    \/ ParseEnd

Spec == Init /\ [][Next]_vars

----------------------------------------------------------------------------
(* What the specification says, in its own terms: characters and digits *)

IsHexDigit(c) == c \in (48..57) \cup (65..70) \cup (97..102)

\* The value of a hex digit.
HexValue(c) == IF c <= 57 THEN c - 48 ELSE IF c <= 70 THEN c - 55 ELSE c - 87

\* The digit of a nibble, lower- or upper-case.
HexDigit(n, upper) == IF n < 10 THEN 48 + n ELSE IF upper THEN 55 + n ELSE 87 + n

ToLower(c) == IF c \in 65..90 THEN c + 32 ELSE c
ToUpper(c) == IF c \in 97..122 THEN c - 32 ELSE c
Lowercased(cs) == [i \in 1..Len(cs) |-> ToLower(cs[i])]
Uppercased(cs) == [i \in 1..Len(cs) |-> ToUpper(cs[i])]

\* Whether the characters cs start with 0x.
HasPrefix(cs) == Len(cs) >= 2 /\ cs[1] = 48 /\ cs[2] = 120

\* The characters cs after at most one leading 0x is stripped, and how many
\* characters were stripped.
StripChars(cs) == IF HasPrefix(cs) THEN SubSeq(cs, 3, Len(cs)) ELSE cs
Stripped(s) == StripChars(chars(s))
Offset(s) == IF Len(s) >= 2 /\ s[1] = 48 /\ s[2] = 120 THEN 2 ELSE 0

\* Whether the characters cs are exactly 64 hex digits.
IsHexDigits(cs) == Len(cs) = 64 /\ \A i \in 1..64 : IsHexDigit(cs[i])

\* Whether a text is an optional 0x followed by exactly 64 hex digits.
IsHexText(s) == Len(s) \in {64, 66} /\ IsHexDigits(Stripped(s))

\* The 64 digits of 32 bytes.
Digits(bytes, upper) ==
    [j \in 1..(2 * Len(bytes)) |->
        IF j % 2 = 1 THEN HexDigit(bytes[(j + 1) \div 2] \div 16, upper)
        ELSE HexDigit(bytes[j \div 2] % 16, upper)]

\* The canonical text of 32 bytes: 0x and 64 lowercase digits.
Canonical(bytes) == <<48, 120>> \o Digits(bytes, FALSE)

\* The position of the leftmost character of cs that is no hex digit (0 if none).
FirstNonHex(cs) ==
    IF \A i \in 1..Len(cs) : IsHexDigit(cs[i]) THEN 0
    ELSE CHOOSE i \in 1..Len(cs) :
            /\ ~IsHexDigit(cs[i])
            /\ \A j \in 1..(i - 1) : IsHexDigit(cs[j])

Done(o) == pc = "done" /\ op = o

----------------------------------------------------------------------------
(* Claims *)

\* The bytes b come back from both views of their formatted buffer.
DecodesBack(buffer, b) ==
    /\ Len(chars(as_str(buffer))) = 66
    /\ Len(chars(as_bytes_str(buffer))) = 64
    /\ decode(as_str(buffer)) = Ok(b)
    /\ decode(as_bytes_str(buffer)) = Ok(b)

\* The decoded digits render as 0x and the digits in lowercase.
RendersLowercase(digits, r) ==
    /\ r.tag = "Ok"
    /\ chars(as_str(fmt(r.value, "Lower"))) = <<48, 120>> \o Lowercased(digits)

\* C1: decode and buffer::fmt are inverse to each other.  For every 32 bytes
\* and either alphabet, decoding the prefixed (66 characters) and the
\* unprefixed (64 characters) view of the formatted buffer gives the bytes
\* back; and for every text that is an optional 0x and 64 hex digits, the
\* prefixed lowercase rendering of the decoded bytes is 0x and the digits of
\* the text in lowercase.
C1_RoundTrip ==
    /\ Done("buffer::fmt") => DecodesBack(ret.value, data)
    /\ Done("from_str") /\ IsHexText(text) => RendersLowercase(Stripped(text), ret)

HasUpper(cs) == \E i \in 1..Len(cs) : cs[i] \in 65..70
HasLower(cs) == \E i \in 1..Len(cs) : cs[i] \in 97..102

\* A prefixed text with an upper-case digit was decoded; its rendering differs
\* from it in case only.
C1_Witness ==
    /\ Done("from_str")
    /\ IsHexText(text)
    /\ Offset(text) = 2
    /\ HasUpper(Stripped(text))
    /\ ret.tag = "Ok"
    /\ as_str(fmt(ret.value, "Lower")) # text

\* C2: whenever the character count of a text, after at most one leading 0x is
\* stripped, is not 64, decode fails with InvalidLength (never with
\* InvalidHexCharacter, never with a value), non-ASCII characters included.
C2_InvalidLengthByCharacterCount ==
    Done("from_str") /\ Len(Stripped(text)) # 64 => ret = Err(InvalidLength)

\* The error for the leftmost character of cs that is no hex digit, at k.
FirstInvalid(cs, k, offset) == Err(InvalidHexCharacter(cs[k], k - 1 + offset))

ReportsFirstInvalid(cs, offset, r) ==
    Len(cs) = 64 /\ FirstNonHex(cs) # 0 => r = FirstInvalid(cs, FirstNonHex(cs), offset)

\* C3: whenever the text after stripping has exactly 64 characters of which
\* one is no hex digit, decode fails with InvalidHexCharacter naming the
\* leftmost such character and its position in the stripped text plus the
\* length of the stripped prefix, and does not panic.
C3_FirstInvalidCharacter ==
    Done("from_str") => ReportsFirstInvalid(Stripped(text), Offset(text), ret)

\* The bytes of r are the values of the digits, whatever their letter case.
ValueOfDigits(digits, r) ==
    /\ r.tag = "Ok"
    /\ Len(r.value) = 32
    /\ \A i \in 0..31 :
        r.value[i + 1] = 16 * HexValue(digits[2 * i + 1]) + HexValue(digits[2 * i + 2])
    /\ decode(Str(Lowercased(digits))) = r
    /\ decode(<<48, 120>> \o Str(Uppercased(digits))) = r

\* C4: for every text of 64 hex digits, with or without 0x, decode succeeds
\* with 32 bytes, byte i being 16 * value(digit 2i) + value(digit 2i + 1)
\* with A..F and a..f both worth 10..15; so the same digits in another letter
\* case decode to the same bytes.
C4_DecodeValue ==
    Done("from_str") /\ IsHexText(text) => ValueOfDigits(Stripped(text), ret)

\* A text mixing upper- and lower-case digits was decoded.
C4_Witness ==
    /\ Done("from_str")
    /\ IsHexText(text)
    /\ HasUpper(Stripped(text))
    /\ HasLower(Stripped(text))
    /\ ret.tag = "Ok"

\* C5: hashing is chunk-invariant.  However a message is split into chunks
\* (empty ones included) and whichever of update, write_str and write each
\* chunk goes through, finalize returns the Digest that Digest::of returns for
\* the whole message.
C5_ChunkInvariant ==
    /\ pc = "hashing" => hasher \o rest = data
    /\ Done("Keccak") => ret = Ok(Digest_of(data))

\* A message was hashed in at least three chunks, one of them empty, through
\* all three entry points.
C5_Witness ==
    /\ Done("Keccak")
    /\ Len(data) >= 2
    /\ Len(chunks) >= 3
    /\ Empties(chunks) >= 1
    /\ used = {"update", "write_str", "write"}
    /\ ret = Ok(Digest_of(data))

SliceOps ==
    {"try_from_slice", "try_from_mut_slice", "try_from_slice_ref", "try_from_mut_slice_ref",
     "try_from_vec", "from_slice"}

\* C6: constructing a Digest from a slice (TryFrom of a shared slice, of a
\* mutable slice, of either into a reference, of a vector, and Digest::from_slice) gives a Digest exactly
\* when the slice has 32 bytes, and then the bytes of the slice in order; for
\* every other length it fails: no truncated or padded Digest comes out.
C6_SliceLength ==
    pc = "done" /\ op \in SliceOps =>
        /\ ret.tag = "Ok" <=> Len(data) = 32
        /\ ret.tag = "Ok" => ret.value = data
        /\ ret.tag # "Ok" => ret.tag \in {"Err", "Panic"}

\* A vector one byte too long was refused and handed back.
C6_Witness ==
    /\ Done("try_from_vec")
    /\ Len(data) = 33
    /\ ret = Err([kind |-> "Vec", vec |-> data])

\* The runtime operations that can fail.
RuntimeOps == {"from_str", "deserialize"} \cup SliceOps

\* C7 as stated: no public runtime operation panics on any input.
C7_NeverPanics == pc = "done" /\ op \in RuntimeOps => ret.tag # "Panic"

\* C7, amended: text parsing, the TryFrom constructions and deserialization
\* return every failure as an error value and never panic; Digest::from_slice
\* panics, as its documentation says, exactly when the slice has not 32 bytes.
C7_ErrorsAreValues ==
    /\ pc = "done" /\ op \in RuntimeOps \ {"from_slice"} => ret.tag \in {"Ok", "Err"}
    /\ Done("from_slice") => (ret.tag = "Panic" <=> Len(data) # 32)
    /\ Done("from_slice") => ret.tag \in {"Ok", "Panic"}

\* A shared slice of the wrong length was refused with an error value.
C7_Witness ==
    /\ Done("try_from_slice")
    /\ Len(data) = 31
    /\ ret = Err([kind |-> "TryFromSliceError"])

\* Whether needle occurs in hay.
Contains(hay, needle) ==
    \E i \in 0..(Len(hay) - Len(needle)) : SubSeq(hay, i + 1, i + Len(needle)) = needle

\* The text an explicit-case renderer is to produce.
CaseDigits(bytes, upper, alternate) ==
    IF alternate THEN <<48, 120>> \o Digits(bytes, upper) ELSE Digits(bytes, upper)

\* C8 as stated: under every width, fill and precision, Display and Debug
\* contain 0x and the 64 lowercase digits, and LowerHex and UpperHex produce
\* exactly the 64 digits in their case, preceded by 0x exactly when the
\* alternate flag is on.
C8_EveryFormatterSetting ==
    /\ pc = "done" /\ op \in {"Display", "Debug"} =>
        Contains(chars(ret.value), Canonical(data))
    /\ Done("LowerHex") => chars(ret.value) = CaseDigits(data, FALSE, opts.alternate)
    /\ Done("UpperHex") => chars(ret.value) = CaseDigits(data, TRUE, opts.alternate)

\* Whether the settings f leave a text of n characters as it is: no precision
\* below n, no width above n.
KeepsWhole(f, n) == ~f.precision.some \/ f.precision.v >= n
KeepsBare(f, n) == KeepsWhole(f, n) /\ (~f.width.some \/ f.width.v <= n)

\* C8, amended: Debug always contains 0x and the 64 lowercase digits; Display
\* does whenever the precision is unset or at least 66; LowerHex and UpperHex
\* produce exactly the 64 digits in their case (preceded by 0x exactly when the
\* alternate flag is on) whenever the precision is unset or at least the
\* length of that text and the width is unset or at most that length.
C8_DisplayRule ==
    /\ Done("Debug") => Contains(chars(ret.value), Canonical(data))
    /\ Done("Display") /\ KeepsWhole(opts, 66) =>
        Contains(chars(ret.value), Canonical(data))
    /\ Done("LowerHex") /\ KeepsBare(opts, IF opts.alternate THEN 66 ELSE 64) =>
        chars(ret.value) = CaseDigits(data, FALSE, opts.alternate)
    /\ Done("UpperHex") /\ KeepsBare(opts, IF opts.alternate THEN 66 ELSE 64) =>
        chars(ret.value) = CaseDigits(data, TRUE, opts.alternate)

\* Display padded its text to a width of 67 and still contains it whole.
C8_Witness ==
    /\ Done("Display")
    /\ opts.width = Some(67)
    /\ opts.precision = Some(66)
    /\ Len(chars(ret.value)) = 67
    /\ Contains(chars(ret.value), Canonical(data))

MissingPrefix == Err([kind |-> "custom", msg |-> [fmt |-> "missing '0x'-prefix"]])

\* C9: deserializing a string that does not start with 0x fails with the
\* missing-prefix error, 64 valid bare digits included; serializing a Digest
\* emits exactly 0x and its 64 lowercase digits, so deserializing what was
\* serialized gives the Digest back.
C9_SerdePrefix ==
    /\ Done("deserialize") /\ ~HasPrefix(chars(text)) => ret = MissingPrefix
    /\ Done("serialize") =>
        /\ chars(ret.value) = Canonical(data)
        /\ deserialize(ret.value) = Ok(data)

\* 64 valid hex digits without the prefix were refused.
C9_Witness ==
    /\ Done("deserialize")
    /\ Len(text) = 64
    /\ IsHexText(text)
    /\ ret = MissingPrefix

\* Whether a token is a string literal: double-quoted, without suffix.
IsStringLiteral(t) == t.kind = "Literal" /\ t.lit = "Str" /\ t.suffix = <<>>

\* Whether src is ::ethdigest::Digest(*b"...") with 32 escapes \xhh of two
\* lowercase hex digits.
IsConstant(src) ==
    /\ Len(src) = 153
    /\ SubSeq(src, 1, 23) = <<58, 58, 101, 116, 104, 100, 105, 103, 101, 115, 116, 58, 58,
                              68, 105, 103, 101, 115, 116, 40, 42, 98, 34>>
    /\ SubSeq(src, 152, 153) = <<34, 41>>
    /\ \A i \in 0..31 :
        /\ src[24 + 4 * i] = 92
        /\ src[25 + 4 * i] = 120
        /\ src[26 + 4 * i] \in (48..57) \cup (97..102)
        /\ src[27 + 4 * i] \in (48..57) \cup (97..102)

\* The 32 bytes of such a constant.
ConstantBytes(src) ==
    [i \in 1..32 |-> 16 * HexValue(src[22 + 4 * i]) + HexValue(src[23 + 4 * i])]

\* Whether out is a complete Digest constant.
IsDigestConstant(out) == out.kind = "expression" /\ IsConstant(out.source)

\* What digest! is to give for the string literal t whose text decodes as d.
DigestOutcome(t, d, r) ==
    /\ r.tag = "Ok"
    /\ d.tag = "Ok" =>
        /\ IsDigestConstant(r.value)
        /\ ConstantBytes(r.value.source) = d.value
    /\ d.tag # "Ok" =>
        r.value = [kind |-> "compile_error",
                   message |-> [fmt |-> "invalid digest literal: {err}",
                                err |-> ParseDigestError_fmt(d.error)],
                   span |-> Some(t.span)]

\* C10: given one string literal, digest! yields the Digest constant of the
\* decoded 32 bytes when decode succeeds and otherwise only a compile error
\* with the message invalid digest literal: <codec error message> at the span
\* of the literal; keccak! never fails on one string literal; and whatever
\* the input, the output is either a complete 32-byte Digest constant or a
\* diagnostic.
C10_LiteralOutcome ==
    /\ Done("digest!") /\ Len(tokens) = 1 /\ IsStringLiteral(tokens[1]) =>
        DigestOutcome(tokens[1], decode(tokens[1].symbol), ret)
    /\ Done("keccak!") /\ Len(tokens) = 1 /\ IsStringLiteral(tokens[1]) =>
        ret.tag = "Ok" /\ IsDigestConstant(ret.value)
    /\ pc = "done" /\ op \in {"digest!", "keccak!"} =>
        /\ ret.tag = "Ok"
        /\ ret.value.kind = "compile_error" \/ IsDigestConstant(ret.value)

\* digest! refused a literal of 64 characters for a character that is no hex
\* digit, at the span of the literal.
C10_Witness ==
    /\ Done("digest!")
    /\ Len(tokens) = 1
    /\ IsStringLiteral(tokens[1])
    /\ decode(tokens[1].symbol).tag = "Err"
    /\ decode(tokens[1].symbol).error.kind = "InvalidHexCharacter"
    /\ ret.tag = "Ok"
    /\ ret.value.kind = "compile_error"
    /\ ret.value.span = Some(tokens[1].span)

\* A token stream with every None-delimited group replaced by its contents.
RECURSIVE Flatten(_)
Flatten(ts) ==
    IF ts = <<>> THEN <<>>
    ELSE (IF Head(ts).kind = "Group" /\ Head(ts).delimiter = "None"
              THEN Flatten(Head(ts).stream)
              ELSE <<Head(ts)>>)
         \o Flatten(Tail(ts))

\* C11: for every string literal that keccak! accepts, escape sequences in its
\* source text included, the constant keccak! produces equals Digest::of
\* computed at run time on the same literal.
C11_KeccakEqualsRuntimeHash ==
    Done("keccak!") /\ ret.tag = "Ok" /\ ret.value.kind = "expression" =>
        ConstantBytes(ret.value.source) = Digest_of(literal_value(Flatten(tokens)[1].symbol))

\* Whether the error e says that expected was expected, anchored at span.
Expected(e, expected, span) ==
    /\ e.message.fmt = "expected {expected} but found '{value}'"
    /\ e.message.expected = expected
    /\ e.span = span

\* What parsing is to give for the flattened token sequence flat.
ParseOutcome(flat, r) ==
    IF flat = <<>>
        THEN /\ r.tag = "Err"
             /\ Expected(r.error, "string literal", None)
             /\ r.error.message.value = <<60, 101, 111, 102, 62>>
    ELSE IF ~IsStringLiteral(flat[1])
        THEN r.tag = "Err" /\ Expected(r.error, "string literal", Some(flat[1].span))
    ELSE IF Len(flat) > 1
        THEN r.tag = "Err" /\ Expected(r.error, "<eof>", Some(flat[2].span))
    ELSE r = Ok([value |-> flat[1].symbol, span |-> flat[1].span])

\* Whether the macro output out is the diagnostic of the parse error of r.
SameDiagnostic(out, r) ==
    r.tag = "Err" =>
        out = [kind |-> "compile_error", message |-> r.error.message, span |-> r.error.span]

\* C12: the literal parser is a machine of two states, String (a string
\* literal is expected) and Eof (the end of input is expected), run over the
\* tokens with every None-delimited group replaced by its contents.  Parsing
\* succeeds exactly when the flattened sequence is one string literal, with
\* that token's unquoted text and span; otherwise it stops at the first
\* offending token with expected string literal (state String) or expected
\* <eof> (state Eof) at that token, and for an empty flattened sequence with
\* expected string literal but found <eof> and no span; the macros report
\* that error.  The state never goes from Eof back to String, and the result
\* is written only on the step from String to Eof, hence once.
C12_TwoStateParser ==
    /\ [](Done("Input::parse") => ParseOutcome(Flatten(tokens), ret))
    /\ [](pc = "done" /\ op \in {"digest!", "keccak!"} =>
            SameDiagnostic(ret.value, Input_parse(tokens)))
    /\ [](pc = "done" /\ op \in {"digest!", "keccak!"} =>
            ParseOutcome(Flatten(tokens), Input_parse(tokens)))
    /\ [][state = "Eof" => state' = "Eof"]_vars
    /\ [][parse_result' # parse_result => state = "String" /\ state' = "Eof"]_vars

\* A literal was recorded and a later token, inside two None-delimited groups,
\* was refused in state Eof at its own span.
C12_Witness ==
    /\ Done("Input::parse")
    /\ Len(tokens) = 2
    /\ tokens[2].kind = "Group"
    /\ Len(Flatten(tokens)) = 3
    /\ state = "Eof"
    /\ parse_result.span = tokens[1].span
    /\ ret.tag = "Err"
    /\ Expected(ret.error, "<eof>", Some(4))

\* C13: deserializing a string s that starts with 0x gives the outcome of
\* decode(s): the same Digest exactly when s is 0x followed by 64 hex digits
\* (0x0x followed by 64 hex digits is refused), and otherwise the error of
\* decode(s), with the same character and the same index counted within s,
\* prefix included.
C13_DeserializeDelegates ==
    Done("deserialize") /\ HasPrefix(chars(text)) =>
        /\ ret.tag = "Ok" <=> IsHexDigits(SubSeq(chars(text), 3, Len(chars(text))))
                              /\ Len(chars(text)) = 66
        /\ decode(text).tag = "Ok" => ret = decode(text)
        /\ decode(text).tag = "Err" =>
            ret = Err([kind |-> "custom", msg |-> ParseDigestError_fmt(decode(text).error)])

====
